---- MODULE Spec2Model ----
(***************************************************************************)
(* Model of app.py: the NYC street-tree dashboard.                         *)
(*                                                                         *)
(* A string is a sequence of one-character strings, so that str.title(),   *)
(* the sorting of the dropdown options and the alphabetical order of       *)
(* groupby/pivot are computed character by character.  A DataFrame is a    *)
(* sequence of rows; a row is a record whose fields are its non-null       *)
(* columns (the JSON source omits a null field, read_json turns the gap    *)
(* into NaN).  A proportion rounded to two decimals is kept as an integer  *)
(* number of hundredths.                                                   *)
(***************************************************************************)
EXTENDS Integers, Sequences, FiniteSets

VARIABLES
    source,             \* the JSON rows the endpoint returns (app.py:23-26)
    nyctrees,           \* the module-level table (app.py:26-35)
    borough,            \* dropdown options, sorted (app.py:38)
    species,            \* dropdown options, sorted (app.py:39)
    pc,                 \* "start", "serving" or "fatal" (import failed)
    borough_selection,  \* value of the borough dropdown (app.py:53-56)
    species_selection,  \* value of the species dropdown (app.py:58-61)
    pending,            \* callbacks the selection has triggered and not yet run
    health_proportion,  \* figure shown by the first graph (app.py:64)
    stewards_health,    \* figure shown by the second graph (app.py:68)
    response            \* outcome of the last invocation of each callback

vars == <<source, nyctrees, borough, species, pc, borough_selection,
          species_selection, pending, health_proportion, stewards_health,
          response>>

----------------------------------------------------------------------------
(* Bounds of the model. *)

\* rows of a source drawn to exercise the load and tidying step
MaxSrcRows == 2
\* rows of a source drawn to exercise the two views on one selection
MaxViewRows == 4
\* rows of a source drawn to exercise the selectors
MaxUIRows == 4
\* largest count(tree_id) of a source row
MaxCount == 3

----------------------------------------------------------------------------
(* Characters and strings. *)

LowerCase == <<"a","b","c","d","e","f","g","h","i","j","k","l","m",
               "n","o","p","q","r","s","t","u","v","w","x","y","z">>
UpperCase == <<"A","B","C","D","E","F","G","H","I","J","K","L","M",
               "N","O","P","Q","R","S","T","U","V","W","X","Y","Z">>
\* the characters used, in code-point order
CodePoints == <<" ", "'", "+", "-">>
              \o <<"0","1","2","3","4","5","6","7","8","9">>
              \o UpperCase \o LowerCase

Range(f) == {f[i] : i \in DOMAIN f}

Chars == Range(CodePoints)

\* ord(c), relative to the first character used
OrdOf == [c \in Chars |-> CHOOSE i \in DOMAIN CodePoints : CodePoints[i] = c]
Ord(c) == OrdOf[c]

\* str.upper() and str.lower() of one character
UpperOf ==
    [c \in Chars |->
        IF \E i \in DOMAIN LowerCase : LowerCase[i] = c
        THEN UpperCase[CHOOSE i \in DOMAIN LowerCase : LowerCase[i] = c]
        ELSE c]
LowerOf ==
    [c \in Chars |->
        IF \E i \in DOMAIN UpperCase : UpperCase[i] = c
        THEN LowerCase[CHOOSE i \in DOMAIN UpperCase : UpperCase[i] = c]
        ELSE c]
ToUpper(c) == UpperOf[c]
ToLower(c) == LowerOf[c]

Letters == Range(LowerCase) \cup Range(UpperCase)
IsCased(c) == c \in Letters

\* str.title(): a cased character is upper-cased when the character before
\* it is not cased and lower-cased when it is; others are kept
RECURSIVE TitleFrom(_, _, _)
TitleFrom(s, i, previous_is_cased) ==
    IF i > Len(s) THEN <<>>
    ELSE IF IsCased(s[i])
         THEN <<IF previous_is_cased THEN ToLower(s[i]) ELSE ToUpper(s[i])>>
              \o TitleFrom(s, i + 1, TRUE)
         ELSE <<s[i]>> \o TitleFrom(s, i + 1, FALSE)

Title(s) == TitleFrom(s, 1, FALSE)

\* a < b for strings, as Python and numpy compare them
LexLess(a, b) ==
    \E i \in 1..(Len(a) + 1) :
        /\ \A j \in 1..(i - 1) : j <= Len(b) /\ a[j] = b[j]
        /\ i <= Len(b)
        /\ (i > Len(a) \/ Ord(a[i]) < Ord(b[i]))

\* the strings of S in ascending order
RECURSIVE Sorted(_)
Sorted(S) ==
    IF S = {} THEN <<>>
    ELSE LET m == CHOOSE x \in S : \A y \in S \ {x} : LexLess(x, y)
         IN  <<m>> \o Sorted(S \ {m})

----------------------------------------------------------------------------
(* String literals of app.py and of the data set. *)

Good == <<"G","o","o","d">>
Fair == <<"F","a","i","r">>
Poor == <<"P","o","o","r">>

None    == <<"N","o","n","e">>
OneOrTwo  == <<"1","o","r","2">>
ThreeOrFour == <<"3","o","r","4">>
FourOrMore == <<"4","o","r","M","o","r","e">>
Bucket0  == <<"0">>
Bucket12 == <<"1","-","2">>
Bucket34 == <<"3","-","4">>
Bucket4p == <<"4","+">>

SchubertQuoted == <<"'","S","c","h","u","b","e","r","t","'"," ",
                    "C","h","o","k","e","c","h","e","r","r","y">>
SchubertPlain  == <<"S","c","h","u","b","e","r","t"," ",
                    "C","h","o","k","e","c","h","e","r","r","y">>

Columns == {"spc_common", "boroname", "health", "steward", "count_tree_id"}

----------------------------------------------------------------------------
(* Data tidying, app.py:29-35. *)

\* a variant of NotNa that looks at the label columns only
NotNaLabelsOnly(r) ==
    {"spc_common", "boroname", "health", "steward"} \subseteq DOMAIN r

NotNa(r) == Columns \subseteq DOMAIN r

\* DataFrame.dropna(): keep the rows with no missing value
DropNa(df) == SelectSeq(df, NotNa)

\* Series.replace(to_replace, value) on one cell
Replace(v, to_replace, value) == IF v = to_replace THEN value ELSE v

\* a variant of ReplaceSteward without the last replacement
ReplaceStewardThreeOnly(v) ==
    Replace(Replace(Replace(v, None, Bucket0), OneOrTwo, Bucket12),
            ThreeOrFour, Bucket34)

ReplaceSteward(v) ==
    Replace(Replace(Replace(Replace(v, None, Bucket0),
                            OneOrTwo, Bucket12),
                    ThreeOrFour, Bucket34),
            FourOrMore, Bucket4p)

TidySpecies(v) == Replace(Title(v), SchubertQuoted, SchubertPlain)

Tidy(df) ==
    [i \in 1..Len(df) |->
        [df[i] EXCEPT !.spc_common = TidySpecies(@),
                      !.steward = ReplaceSteward(@)]]

\* np.sort(column.unique())
SortedUnique(df, col) == Sorted({df[i][col] : i \in 1..Len(df)})

----------------------------------------------------------------------------
(* Helpers shared by the two callbacks. *)

\* nyctrees[(nyctrees['boroname'] == b) & (nyctrees['spc_common'] == s)]
Selection(df, b, s) ==
    SelectSeq(df, LAMBDA r : r.boroname = b /\ r.spc_common = s)

RECURSIVE SumFrom(_, _)
SumFrom(df, i) ==
    IF i > Len(df) THEN 0 ELSE df[i].count_tree_id + SumFrom(df, i + 1)

\* sum(df['count_tree_id'])
Total(df) == SumFrom(df, 1)

\* df.groupby(col).sum()['count_tree_id'] at key k
GroupSum(df, col, k) == Total(SelectSeq(df, LAMBDA r : r[col] = k))

\* a variant of Round2 that truncates
RoundTruncating(num, den) == (100 * num) \div den

\* round(num / den, 2) in hundredths, for den > 0: numpy rounds 100 * num / den
\* to the nearest integer, a tie to the even one

Round2(num, den) ==
    LET q == (100 * num) \div den
        r == (100 * num) % den
    IN  IF 2 * r < den THEN q
        ELSE IF 2 * r > den THEN q + 1
        ELSE IF q % 2 = 0 THEN q ELSE q + 1

\* frame.loc[label] = row: overwrite the row of that label, or add it
SetLoc(frame, label, row) ==
    [l \in DOMAIN frame \cup {label} |-> IF l = label THEN row ELSE frame[l]]

\* the title of a figure names the selection it was computed for
FigureTitle(b, s) == [species |-> s, borough |-> b]

\* a dcc.Graph that has been given no figure
NoFigure == [title |-> FigureTitle(<<>>, <<>>), data |-> <<>>]

----------------------------------------------------------------------------
(* health_prop, app.py:79-105. *)

\* line 83: one row per health state present, in alphabetical order, labelled
\* 0, 1, ... by reset_index()
HealthGrouped(df) ==
    LET keys == SortedUnique(df, "health")
    IN  [l \in 0..(Len(keys) - 1) |->
            [health |-> keys[l + 1],
             count_tree_id |-> Round2(GroupSum(df, "health", keys[l + 1]),
                                      Total(df))]]

\* lines 85-87: the loop writes every absent state to the row labelled 2
RECURSIVE ZeroFill(_, _, _)
ZeroFill(frame, states, i) ==
    IF i > Len(states) THEN frame
    ELSE IF \A l \in DOMAIN frame : states[i] # frame[l].health
         THEN ZeroFill(SetLoc(frame, 2, [health |-> states[i],
                                         count_tree_id |-> 0]),
                       states, i + 1)
         ELSE ZeroFill(frame, states, i + 1)

\* the rows of frame whose health is c, by ascending label from l on
RECURSIVE RowsWith(_, _, _)
RowsWith(frame, c, l) ==
    IF l > 2 THEN <<>>
    ELSE (IF l \in DOMAIN frame /\ frame[l].health = c
          THEN <<frame[l]>> ELSE <<>>) \o RowsWith(frame, c, l + 1)

\* lines 89-90: sort by the categorical order Good, Fair, Poor
SortByHealth(frame) ==
    RowsWith(frame, Good, 0) \o RowsWith(frame, Fair, 0)
        \o RowsWith(frame, Poor, 0)

HealthPropFrame(df) ==
    SortByHealth(ZeroFill(HealthGrouped(df), <<Fair, Good, Poor>>, 1))

\* lines 92-105: one go.Bar, x the health states and y the proportions
HealthPropFigure(df, b, s) ==
    LET frame == HealthPropFrame(Selection(df, b, s))
    IN  [title |-> FigureTitle(b, s),
         data  |-> <<[x |-> [i \in 1..Len(frame) |-> frame[i].health],
                      y |-> [i \in 1..Len(frame) |-> frame[i].count_tree_id]]>>]

----------------------------------------------------------------------------
(* stewardship, app.py:111-161. *)

categories == <<Bucket0, Bucket12, Bucket34, Bucket4p>>

\* DataFrame.pivot raises ValueError when two rows share (index, columns)
PivotRaises(df) ==
    \E i, j \in 1..Len(df) :
        i # j /\ df[i].health = df[j].health /\ df[i].steward = df[j].steward

\* lines 115-119: each row gains its bucket's total (count_tree_id_y) and
\* its share of it (steward_p)
Merged(df) ==
    [i \in 1..Len(df) |->
        [health |-> df[i].health,
         steward |-> df[i].steward,
         count_tree_id_x |-> df[i].count_tree_id,
         count_tree_id_y |-> GroupSum(df, "steward", df[i].steward),
         steward_p |-> Round2(df[i].count_tree_id,
                              GroupSum(df, "steward", df[i].steward))]]

\* lines 123-129: the pivot of column values, one row per health state
\* present, labelled 0, 1, ... in alphabetical order; one column per
\* category; 0 for an absent cell
Pivoted(frame, values) ==
    LET keys == SortedUnique(frame, "health")
    IN  [l \in 0..(Len(keys) - 1) |->
            [c \in 1..Len(categories) |->
                LET cell == SelectSeq(frame, LAMBDA r :
                                /\ r.health = keys[l + 1]
                                /\ r.steward = categories[c])
                IN  IF Len(cell) = 0 THEN 0 ELSE cell[1][values]]]

\* frame.loc[label] raises KeyError when no row has that label
LocRaises(frame, label) == label \notin DOMAIN frame

\* lines 131-150: the row each trace reads
TraceLabel == [Good |-> 1, Fair |-> 0, Poor |-> 2]

Trace(name, label, steward_health, hover) ==
    [name |-> name, x |-> categories,
     y |-> steward_health[label], text |-> hover[label]]

StewardshipRaises(df, b, s) ==
    LET sel == Selection(df, b, s)
    IN  \/ PivotRaises(sel)
        \/ \E l \in {1, 0, 2} :
               LocRaises(Pivoted(Merged(sel), "steward_p"), l)

StewardshipFigure(df, b, s) ==
    LET sel == Selection(df, b, s)
        steward_health == Pivoted(Merged(sel), "steward_p")
        hover == Pivoted(Merged(sel), "count_tree_id_x")
    IN  [title |-> FigureTitle(b, s),
         data  |-> <<Trace("Good", TraceLabel.Good, steward_health, hover),
                     Trace("Fair", TraceLabel.Fair, steward_health, hover),
                     Trace("Poor", TraceLabel.Poor, steward_health, hover)>>]

----------------------------------------------------------------------------
(* The sources the model draws: what the endpoint of app.py:23-25 may return. *)
(* The query groups by species, borough, health and steward, so a source has *)
(* at most one row per combination and every count is at least 1.            *)

Bronx  == <<"B","r","o","n","x">>
Queens == <<"Q","u","e","e","n","s">>

ginkgo        == <<"g","i","n","k","g","o">>
GinkgoCapital == <<"G","i","n","k","g","o">>
red_maple     == <<"r","e","d"," ","m","a","p","l","e">>
schubert_raw  == <<"'","S","c","h","u","b","e","r","t","'"," ",
                   "c","h","o","k","e","c","h","e","r","r","y">>

Row(s, b, h, st, n) ==
    [spc_common |-> s, boroname |-> b, health |-> h, steward |-> st,
     count_tree_id |-> n]

\* r without column col: the JSON object of a group whose col is null
Without(r, col) == [c \in (DOMAIN r) \ {col} |-> r[c]]

\* the subsets of S with at most k elements
RECURSIVE SubsetsUpTo(_, _)
SubsetsUpTo(S, k) ==
    IF k = 0 THEN {{}}
    ELSE LET P == SubsetsUpTo(S, k - 1)
         IN  P \cup {p \cup {x} : p \in P, x \in S}

\* rows that differ in spelling, in steward label, or lack a field
LoadRows ==
    {Row(s, Bronx, Good, st, 1) :
        s \in {ginkgo, GinkgoCapital, schubert_raw, SchubertPlain},
        st \in {None, OneOrTwo, ThreeOrFour, FourOrMore}}
    \cup {Without(Row(red_maple, Queens, Fair, None, 1), col) : col \in Columns}

LoadSources == SubsetsUpTo(LoadRows, MaxSrcRows)

\* rows of one (borough, species) pair: any health states, two buckets, any counts
ViewKeys == {<<h, st>> : h \in {Good, Fair, Poor}, st \in {None, OneOrTwo}}

ViewSources ==
    UNION {{{Row(ginkgo, Bronx, k[1], k[2], n[k]) : k \in K} :
               n \in [K -> 1..MaxCount]} :
           K \in SubsetsUpTo(ViewKeys, MaxViewRows)}

\* rows of two boroughs and two species
UIRows ==
    {Row(s, b, h, None, 1) :
        s \in {ginkgo, red_maple}, b \in {Bronx, Queens},
        h \in {Good, Fair, Poor}}

UISources == SubsetsUpTo(UIRows, MaxUIRows)

Sources == LoadSources \cup ViewSources \cup UISources

\* the rows of S in the order the endpoint happens to return them
RECURSIVE SetToSeq(_)
SetToSeq(S) ==
    IF S = {} THEN <<>>
    ELSE LET r == CHOOSE x \in S : TRUE IN <<r>> \o SetToSeq(S \ {r})

----------------------------------------------------------------------------
(* The program. *)

Callbacks == {"health_prop", "stewardship"}

NoResponse == [status |-> "none", title |-> FigureTitle(<<>>, <<>>)]

Init ==
    /\ source \in {SetToSeq(S) : S \in Sources}
    /\ nyctrees = <<>>
    /\ borough = <<>>
    /\ species = <<>>
    /\ pc = "start"
    /\ borough_selection = <<>>
    /\ species_selection = <<>>
    /\ pending = {}
    /\ health_proportion = NoFigure
    /\ stewards_health = NoFigure
    /\ response = [c \in Callbacks |-> NoResponse]

\* app.py:26-61: read the source, tidy it, fill the dropdowns.  borough[0]
\* raises IndexError on an empty table, and the import fails.  Once the page
\* is served, Dash invokes every callback with the initial values.
Load ==
    /\ pc = "start"
    /\ nyctrees' = Tidy(DropNa(source))
    /\ borough' = SortedUnique(nyctrees', "boroname")
    /\ species' = SortedUnique(nyctrees', "spc_common")
    /\ IF Len(nyctrees') = 0
       THEN /\ pc' = "fatal"
            /\ UNCHANGED <<borough_selection, species_selection, pending>>
       ELSE /\ pc' = "serving"
            /\ borough_selection' = borough'[1]
            /\ species_selection' = species'[1]
            /\ pending' = Callbacks
    /\ UNCHANGED <<source, health_proportion, stewards_health, response>>

\* the user picks another option of the borough dropdown (app.py:53-56);
\* the value is an Input of both callbacks (app.py:77, 109)
SelectBorough ==
    /\ pc = "serving"
    /\ \E b \in Range(borough) :
        /\ b # borough_selection
        /\ borough_selection' = b
    /\ pending' = Callbacks
    /\ UNCHANGED <<source, nyctrees, borough, species, pc, species_selection,
                   health_proportion, stewards_health, response>>

\* the user picks another option of the species dropdown (app.py:58-61)
SelectSpecies ==
    /\ pc = "serving"
    /\ \E s \in Range(species) :
        /\ s # species_selection
        /\ species_selection' = s
    /\ pending' = Callbacks
    /\ UNCHANGED <<source, nyctrees, borough, species, pc, borough_selection,
                   health_proportion, stewards_health, response>>

\* a variant of health_prop that writes the zero-fill rows to the shared table
health_prop_writing_table ==
    /\ pc = "serving"
    /\ "health_prop" \in pending
    /\ pending' = pending \ {"health_prop"}
    /\ health_proportion' =
           HealthPropFigure(nyctrees, borough_selection, species_selection)
    /\ response' = [response EXCEPT !["health_prop"] =
           [status |-> "ok",
            title |-> FigureTitle(borough_selection, species_selection)]]
    /\ nyctrees' = nyctrees \o
           [i \in 1..Len(health_proportion'.data[1].x) |->
               Row(species_selection, borough_selection,
                   health_proportion'.data[1].x[i], Bucket0, 0)]
    /\ UNCHANGED <<source, borough, species, pc, borough_selection,
                   species_selection, stewards_health>>

\* app.py:75-105: the callback of the first graph.  It reads nyctrees and
\* returns the figure; nothing in it raises.
health_prop ==
    /\ pc = "serving"
    /\ "health_prop" \in pending
    /\ pending' = pending \ {"health_prop"}
    /\ health_proportion' =
           HealthPropFigure(nyctrees, borough_selection, species_selection)
    /\ response' = [response EXCEPT !["health_prop"] =
           [status |-> "ok",
            title |-> FigureTitle(borough_selection, species_selection)]]
    /\ UNCHANGED <<source, nyctrees, borough, species, pc, borough_selection,
                   species_selection, stewards_health>>

\* app.py:107-161: the callback of the second graph.  When the pivot or a
\* .loc raises, Dash answers the request with an error and the graph keeps
\* the figure it had.
stewardship ==
    /\ pc = "serving"
    /\ "stewardship" \in pending
    /\ pending' = pending \ {"stewardship"}
    /\ IF StewardshipRaises(nyctrees, borough_selection, species_selection)
       THEN /\ stewards_health' = stewards_health
            /\ response' = [response EXCEPT !["stewardship"] =
                   [status |-> "error",
                    title |-> FigureTitle(borough_selection,
                                          species_selection)]]
       ELSE /\ stewards_health' =
                   StewardshipFigure(nyctrees, borough_selection,
                                     species_selection)
            /\ response' = [response EXCEPT !["stewardship"] =
                   [status |-> "ok",
                    title |-> FigureTitle(borough_selection,
                                          species_selection)]]
    /\ UNCHANGED <<source, nyctrees, borough, species, pc, borough_selection,
                   species_selection, health_proportion>>

Next ==
    \/ Load
    \/ SelectBorough
    \/ SelectSpecies
    \/ health_prop
    \/ stewardship

Spec == Init /\ [][Next]_vars

----------------------------------------------------------------------------
(* Vocabulary of the properties. *)

Ran(cb) == response[cb].status # "none"

\* the rows that matched the selection of the last invocation of cb
Matched(cb) ==
    Selection(nyctrees, response[cb].title.borough, response[cb].title.species)

RowsOf(df, h) == SelectSeq(df, LAMBDA r : r.health = h)
RowsAt(df, h, c) == SelectSeq(df, LAMBDA r : r.health = h /\ r.steward = c)
RowsIn(df, c) == SelectSeq(df, LAMBDA r : r.steward = c)

RECURSIVE SeqSum(_)
SeqSum(s) == IF s = <<>> THEN 0 ELSE Head(s) + SeqSum(Tail(s))

Bar == health_proportion.data[1]

HealthNamed == [Good |-> Good, Fair |-> Fair, Poor |-> Poor]

\* the bucket a raw steward label stands for
CanonicalBucket(v) ==
    CASE v = None -> Bucket0
      [] v = OneOrTwo -> Bucket12
      [] v = ThreeOrFour -> Bucket34
      [] v = FourOrMore -> Bucket4p
      [] OTHER -> v

\* the indices of the source rows that lack no field
FullRows == {j \in 1..Len(source) : \A c \in Columns : c \in DOMAIN source[j]}

Key(r) == <<r.spc_common, r.boroname, r.health, r.steward>>

CurrentTitle == FigureTitle(borough_selection, species_selection)

----------------------------------------------------------------------------
(* The claims. *)

\* C1: for a selection that matches at least one row, health_prop returns
\* exactly the three bars Good, Fair, Poor in that order, the bar of a state
\* being its share of the matching count rounded to two decimals, and 0 for
\* a state with no matching row.
C1_ThreeBarsGoodFairPoor ==
    (Ran("health_prop") /\ Len(Matched("health_prop")) > 0) =>
        /\ Bar.x = <<Good, Fair, Poor>>
        /\ \A i \in DOMAIN Bar.x :
            Bar.y[i] =
                IF Len(RowsOf(Matched("health_prop"), Bar.x[i])) = 0 THEN 0
                ELSE Round2(Total(RowsOf(Matched("health_prop"), Bar.x[i])),
                            Total(Matched("health_prop")))

\* C2: for a selection that matches at least one row, the proportions that
\* health_prop outputs sum, in hundredths, to a value between 99 and 101.
C2_ProportionsSumToOne ==
    (Ran("health_prop") /\ Len(Matched("health_prop")) > 0) =>
        SeqSum(Bar.y) \in 99..101

\* C2 witness: a selection of three health states whose rounded shares do
\* not add up to exactly 100 hundredths.
C2_Witness ==
    /\ Ran("health_prop")
    /\ Len(Matched("health_prop")) > 0
    /\ Len(Bar.y) = 3
    /\ \A i \in 1..3 : Bar.y[i] > 0
    /\ SeqSum(Bar.y) # 100

\* C3: for a selection that matches at least one row, stewardship returns
\* three series over the four buckets; in a bucket with matching rows the
\* three proportions sum to 1.0 within rounding, in a bucket without they
\* are all zero.
C3_BucketsSumToOne ==
    (Ran("stewardship") /\ Len(Matched("stewardship")) > 0) =>
        /\ response["stewardship"].status = "ok"
        /\ Len(stewards_health.data) = 3
        /\ \A c \in DOMAIN categories :
            LET ys == [t \in 1..3 |-> stewards_health.data[t].y[c]]
            IN  IF Len(RowsIn(Matched("stewardship"), categories[c])) > 0
                THEN SeqSum(ys) \in 99..101
                ELSE \A t \in 1..3 : ys[t] = 0

\* C4: for a selection that matches at least one row, stewardship outputs one
\* series per health state, and the series named h carries at bucket b the
\* count of (h, b) over the total of b, and 0 where (h, b) is absent.
C4_SeriesCarryOwnHealth ==
    (Ran("stewardship") /\ Len(Matched("stewardship")) > 0) =>
        /\ response["stewardship"].status = "ok"
        /\ {stewards_health.data[t].name : t \in DOMAIN stewards_health.data}
               = {"Good", "Fair", "Poor"}
        /\ \A t \in DOMAIN stewards_health.data : \A c \in DOMAIN categories :
            LET h == HealthNamed[stewards_health.data[t].name]
                cell == RowsAt(Matched("stewardship"), h, categories[c])
            IN  stewards_health.data[t].y[c] =
                    IF Len(cell) = 0 THEN 0
                    ELSE Round2(Total(cell),
                                Total(RowsIn(Matched("stewardship"),
                                             categories[c])))

\* C5: when the selected borough and the selected species each occur in the
\* table but no row matches the pair, neither callback ends in an error.
C5_EmptySelectionNoError ==
    \A cb \in Callbacks :
        (/\ Ran(cb)
         /\ \E i \in DOMAIN nyctrees :
                nyctrees[i].boroname = response[cb].title.borough
         /\ \E i \in DOMAIN nyctrees :
                nyctrees[i].spc_common = response[cb].title.species
         /\ Len(Matched(cb)) = 0)
        => response[cb].status = "ok"

\* C6: once loaded, the table nyctrees is never changed by any invocation of
\* health_prop or stewardship, with any selection.
C6_TableNeverChanged == [][pc = "serving" => nyctrees' = nyctrees]_vars

\* C6 witness: both callbacks have run, health_prop has zero-filled an absent
\* health state in its own frame, and the table is the one that was loaded.
C6_Witness ==
    /\ Ran("health_prop") /\ Ran("stewardship")
    /\ Len(Matched("health_prop")) > 0
    /\ \E i \in DOMAIN Bar.x :
        /\ Bar.y[i] = 0
        /\ Len(RowsOf(Matched("health_prop"), Bar.x[i])) = 0
    /\ \A i \in DOMAIN nyctrees : nyctrees[i].count_tree_id > 0
    /\ nyctrees = Tidy(DropNa(source))

\* C7: a source with at most one row per raw combination loads into a table
\* with at most one row per (species, borough, health, steward) combination.
C7_OneRowPerCombination ==
    (/\ pc = "serving"
     /\ \A i, j \in FullRows : i # j => Key(source[i]) # Key(source[j]))
    => \A i, j \in DOMAIN nyctrees : i # j => Key(nyctrees[i]) # Key(nyctrees[j])

\* C8: the load maps the raw steward labels None, 1or2, 3or4, 4orMore to
\* 0, 1-2, 3-4, 4+ in every row and leaves borough, health and count as
\* they were.
C8_StewardLabelsMapped ==
    pc # "start" =>
        /\ Len(nyctrees) = Cardinality(FullRows)
        /\ \A i \in DOMAIN nyctrees :
            LET j == CHOOSE k \in FullRows :
                        Cardinality({m \in FullRows : m <= k}) = i
            IN  /\ nyctrees[i].steward = CanonicalBucket(source[j].steward)
                /\ nyctrees[i].boroname = source[j].boroname
                /\ nyctrees[i].health = source[j].health
                /\ nyctrees[i].count_tree_id = source[j].count_tree_id

\* C8 witness: a loaded table whose rows came from the labels 3or4 and 4orMore.
C8_Witness ==
    /\ pc = "serving"
    /\ {source[j].steward : j \in FullRows} = {ThreeOrFour, FourOrMore}
    /\ {nyctrees[i].steward : i \in DOMAIN nyctrees} = {Bucket34, Bucket4p}

\* C9: a source row with a null field is absent from the loaded table, a
\* source row without one is present, and no dropdown option comes from a
\* row with a missing field.
C9_NullRowsDropped ==
    pc # "start" =>
        /\ Len(nyctrees) = Cardinality(FullRows)
        /\ \A i \in DOMAIN nyctrees : Columns \subseteq DOMAIN nyctrees[i]
        /\ \A j \in FullRows : \E i \in DOMAIN nyctrees :
            /\ nyctrees[i].boroname = source[j].boroname
            /\ nyctrees[i].health = source[j].health
            /\ nyctrees[i].count_tree_id = source[j].count_tree_id
            /\ nyctrees[i].spc_common = TidySpecies(source[j].spc_common)
        /\ Range(borough) = {source[j].boroname : j \in FullRows}
        /\ Range(species) = {TidySpecies(source[j].spc_common) : j \in FullRows}

\* C9 witness: the page is served from a source that had a row with a null
\* field beside a row without.
C9_Witness ==
    /\ pc = "serving"
    /\ Ran("health_prop")
    /\ \E j \in 1..Len(source) : j \notin FullRows
    /\ Len(nyctrees) = 1

\* C10: once the callbacks triggered by the selection changes have run, no
\* graph is left showing the chart of another selection than the current one.
C10_NoStaleChart ==
    (pc = "serving" /\ pending = {}) =>
        /\ health_proportion # NoFigure => health_proportion.title = CurrentTitle
        /\ stewards_health # NoFigure => stewards_health.title = CurrentTitle

====
